---- MODULE Spec2Model ----
(***************************************************************************)
(* SubscriptionManager (src/SubscriptionManager.py): the in-memory         *)
(* registry of tracked subscriptions, add/remove, the renewal check cycle  *)
(* and the run() loop.                                                     *)
(*                                                                         *)
(* Time is counted in seconds from the moment the manager is constructed.  *)
(* The coroutines of the class are suspended only at their awaits; the     *)
(* code between two awaits runs without interleaving (one asyncio event    *)
(* loop), so add, remove and the clock act only while no cycle is running  *)
(* or while the cycle is suspended inside renew_subscription.              *)
(***************************************************************************)
EXTENDS Integers, Sequences, FiniteSets, TLC

VARIABLES
    subscriptions,  \* self.subscriptions: platform -> (subscription_id -> record)
    now,            \* datetime.now(), in seconds
    run_pc,         \* position of run(): "idle", "check", "except", "raised"
    run_exc,        \* exception run() is handling or has raised
    chk_pc,         \* position of check_for_renewals()
    chk_caller,     \* who awaits the cycle: "run", "direct" or "-"
    chk_exc,        \* exception raised by the cycle
    pidx,           \* index into self.platforms of the platform being visited
    it_obj,         \* keys now held by the dict object the inner for iterates
    it_same,        \* that object is still self.subscriptions[platform]
    it_used,        \* its size when the iterator was created
    it_rest,        \* keys the iterator has not produced yet
    calls,          \* renew_subscription calls issued by the cycle, in order
    chk_alone,      \* nothing else changed the registry or the clock during the cycle
    last            \* the last operation performed and its arguments

vars == <<subscriptions, now, run_pc, run_exc, chk_pc, chk_caller, chk_exc,
          pidx, it_obj, it_same, it_used, it_rest, calls, chk_alone, last>>

(***************************************************************************)
(* Bounds of the model.                                                    *)
(***************************************************************************)
MaxDays == 37
MaxSecs == 1

(***************************************************************************)
(* Program constants.                                                      *)
(***************************************************************************)
Day == 24 * 60 * 60
RenewLeadDays == 7
SubscriptionDays == 30
platforms == <<"PlatformA", "PlatformB", "PlatformC">>
AsyncioImported == FALSE

Supported == {platforms[i] : i \in 1..Len(platforms)}

\* Arguments the operations are called with: two supported platforms and an
\* unsupported one, two ids.  PlatformC is never added to; the cycle still
\* visits it.
PlatformArgs == {"PlatformA", "PlatformB", "PlatformX"}
IdArgs == {"sub1", "sub2"}
\* Amounts the clock advances by: they reach 24, 36 and 37 days, and 37 days
\* and 1 second, after a record created at time 0.
TickSteps == {1, 6 * Day, 31 * Day}
MaxTime == MaxDays * Day + MaxSecs
\* Outcomes of the POST of a renewal: an HTTP status, or an exception.
Responses == {[kind |-> "status", status |-> 200, exc |-> "-"],
              [kind |-> "status", status |-> 201, exc |-> "-"],
              [kind |-> "status", status |-> 404, exc |-> "-"],
              [kind |-> "status", status |-> 500, exc |-> "-"],
              [kind |-> "raise", status |-> 0, exc |-> "ClientConnectionError"],
              [kind |-> "raise", status |-> 0, exc |-> "TimeoutError"]}

\* Arguments fetch is called with; it reads neither the registry nor
\* self.platforms, so one supported and one unsupported platform are taken.
FetchPlatformArgs == {"PlatformA", "PlatformX"}
FetchIdArgs == {"sub1"}
\* Outcomes of the GET of a fetch: a status with the body it carries (JSON, a
\* body that is not JSON, a body of another content type), or an exception.
FetchResponses == {[kind |-> "status", status |-> 200, exc |-> "-", body |-> "json"],
                   [kind |-> "status", status |-> 200, exc |-> "-", body |-> "garbage"],
                   [kind |-> "status", status |-> 200, exc |-> "-", body |-> "html"],
                   [kind |-> "status", status |-> 404, exc |-> "-", body |-> "json"],
                   [kind |-> "status", status |-> 500, exc |-> "-", body |-> "html"],
                   [kind |-> "raise", status |-> 0, exc |-> "ClientConnectionError", body |-> "-"],
                   [kind |-> "raise", status |-> 0, exc |-> "TimeoutError", body |-> "-"]}

\* aiohttp.ClientError and its subclasses, among the exceptions modelled.
ClientErrors == {"ClientConnectionError", "ContentTypeError"}

\* Exception and its subclasses, among the exceptions modelled.
Exceptions == ClientErrors \cup {"TimeoutError", "JSONDecodeError"}

(***************************************************************************)
(* Helpers over the registry.                                              *)
(***************************************************************************)
\* self.subscriptions.get(platform, default): the keys of the platform's dict
GetKeys(subs, platform) ==
    IF platform \in DOMAIN subs THEN DOMAIN subs[platform] ELSE {}

Tracked(subs, platform, id) == id \in GetKeys(subs, platform)

IsSupported_any(platform) == TRUE

\* platform in self.platforms
IsSupported(platform) == platform \in Supported

NewRecord_lead(t) == [status |-> "active", expiry |-> t + RenewLeadDays * Day]

\* {'status': 'active', 'expiry': datetime.now() + timedelta(days=30)}
NewRecord(t) == [status |-> "active", expiry |-> t + SubscriptionDays * Day]

IsDue_ge(t, expiry) == (t - RenewLeadDays * Day) >= expiry

\* (datetime.now() - timedelta(days=7)) > expiry_date
IsDue(t, expiry) == (t - RenewLeadDays * Day) > expiry

\* d with key k deleted
DictDel(d, k) == [x \in (DOMAIN d) \ {k} |-> d[x]]

\* m with m[k] = v, k added when absent
DictSet(m, k, v) == [x \in (DOMAIN m) \cup {k} |-> IF x = k THEN v ELSE m[x]]

Op(op, platform, id, ret) == [op |-> op, platform |-> platform, id |-> id, ret |-> ret]

\* No synchronous section of a coroutine is running.
Suspended ==
    \/ chk_pc = "renewing"
    \/ chk_pc = "idle" /\ run_pc \in {"idle", "raised"}

Init ==
    /\ subscriptions = << >>
    /\ now = 0
    /\ run_pc = "idle"
    /\ run_exc = "none"
    /\ chk_pc = "idle"
    /\ chk_caller = "-"
    /\ chk_exc = "none"
    /\ pidx = 0
    /\ it_obj = {}
    /\ it_same = FALSE
    /\ it_used = 0
    /\ it_rest = {}
    /\ calls = << >>
    /\ chk_alone = FALSE
    /\ last = Op("init", "-", "-", "-")

(***************************************************************************)
(* The clock.                                                              *)
(***************************************************************************)
Tick(d) ==
    /\ Suspended
    /\ now + d <= MaxTime
    /\ d = 1 => (now % Day) < MaxSecs
    /\ now' = now + d
    /\ chk_alone' = FALSE
    /\ last' = Op("tick", "-", "-", "-")
    /\ UNCHANGED <<subscriptions, run_pc, run_exc, chk_pc, chk_caller, chk_exc,
                   pidx, it_obj, it_same, it_used, it_rest, calls>>

(***************************************************************************)
(* add_subscription(platform, subscription_id)                             *)
(***************************************************************************)
\* Without the platform check of lines 92-94.
AddResult_nocheck(subs, platform, id, t) ==
    IF id \in GetKeys(subs, platform) THEN subs
    ELSE DictSet(subs, platform, (id :> NewRecord(t)))

\* Without the membership check of line 95.
AddResult_reset(subs, platform, id, t) ==
    IF ~IsSupported(platform) THEN subs
    ELSE DictSet(subs, platform, (id :> NewRecord(t)))

\* The registry after the call.
AddResult(subs, platform, id, t) ==
    IF ~IsSupported(platform) THEN subs
    ELSE IF id \in GetKeys(subs, platform) THEN subs
    ELSE DictSet(subs, platform, (id :> NewRecord(t)))

\* What the call logs: lines 93 and 97.
AddLog(subs, platform, id) ==
    IF ~IsSupported(platform) THEN "unsupported"
    ELSE IF id \in GetKeys(subs, platform) THEN "-"
    ELSE "added"

\* The assignment of line 96 binds a new dict object to the platform.
AddRebinds(subs, platform, id) ==
    IsSupported(platform) /\ id \notin GetKeys(subs, platform)

add_subscription(platform, id) ==
    /\ Suspended
    /\ subscriptions' = AddResult(subscriptions, platform, id, now)
    /\ it_same' = IF chk_pc = "renewing" /\ platform = platforms[pidx]
                     /\ AddRebinds(subscriptions, platform, id)
                  THEN FALSE ELSE it_same
    /\ chk_alone' = (chk_alone /\ subscriptions' = subscriptions)
    /\ last' = Op("add", platform, id, AddLog(subscriptions, platform, id))
    /\ UNCHANGED <<now, run_pc, run_exc, chk_pc, chk_caller, chk_exc,
                   pidx, it_obj, it_used, it_rest, calls>>

(***************************************************************************)
(* remove_subscription(platform, subscription_id)                          *)
(***************************************************************************)
\* The condition of line 107.
RemoveDeletes(subs, platform, id) ==
    IsSupported(platform) /\ id \in GetKeys(subs, platform)

\* Deleting the platform's dict whatever the id.
RemoveResult_platform(subs, platform, id) ==
    IF IsSupported(platform) /\ platform \in DOMAIN subs
    THEN DictDel(subs, platform)
    ELSE subs

\* Emptying the registry.
RemoveResult_clear(subs, platform, id) ==
    IF RemoveDeletes(subs, platform, id) THEN << >> ELSE subs

\* The registry after the call: lines 107-108.
RemoveResult(subs, platform, id) ==
    IF RemoveDeletes(subs, platform, id)
    THEN [subs EXCEPT ![platform] = DictDel(subs[platform], id)]
    ELSE subs

remove_subscription(platform, id) ==
    /\ Suspended
    /\ subscriptions' = RemoveResult(subscriptions, platform, id)
    /\ it_obj' = IF chk_pc = "renewing" /\ platform = platforms[pidx] /\ it_same
                    /\ RemoveDeletes(subscriptions, platform, id)
                 THEN it_obj \ {id} ELSE it_obj
    /\ chk_alone' = (chk_alone /\ subscriptions' = subscriptions)
    /\ last' = Op("remove", platform, id,
                  IF RemoveDeletes(subscriptions, platform, id) THEN "removed" ELSE "-")
    /\ UNCHANGED <<now, run_pc, run_exc, chk_pc, chk_caller, chk_exc,
                   pidx, it_same, it_used, it_rest, calls>>

(***************************************************************************)
(* check_for_renewals()                                                    *)
(***************************************************************************)
\* The cycle is entered: the outer for takes the first platform.
CycleBegin(caller) ==
    /\ chk_pc' = "platform"
    /\ chk_caller' = caller
    /\ chk_exc' = "none"
    /\ pidx' = 1
    /\ it_obj' = {}
    /\ it_same' = FALSE
    /\ it_used' = 0
    /\ it_rest' = {}
    /\ calls' = << >>
    /\ chk_alone' = TRUE

\* The cycle is left: its frame is gone.
CycleClear ==
    /\ chk_pc' = "idle"
    /\ chk_caller' = "-"
    /\ chk_exc' = "none"
    /\ pidx' = 0
    /\ it_obj' = {}
    /\ it_same' = FALSE
    /\ it_used' = 0
    /\ it_rest' = {}
    /\ calls' = << >>
    /\ chk_alone' = FALSE

\* A caller other than run() awaits check_for_renewals().
CheckCall ==
    /\ chk_pc = "idle"
    /\ run_pc \in {"idle", "raised"}
    /\ CycleBegin("direct")
    /\ last' = Op("check_call", "-", "-", "-")
    /\ UNCHANGED <<subscriptions, now, run_pc, run_exc>>

\* Lines 76-78: the iterator over self.subscriptions.get(platform, []).
NextPlatform ==
    /\ chk_pc = "platform"
    /\ LET p == platforms[pidx] IN
        /\ it_obj' = GetKeys(subscriptions, p)
        /\ it_same' = (p \in DOMAIN subscriptions)
        /\ it_used' = Cardinality(GetKeys(subscriptions, p))
        /\ it_rest' = GetKeys(subscriptions, p)
        /\ last' = Op("platform", p, "-", "-")
    /\ chk_pc' = "iter"
    /\ UNCHANGED <<subscriptions, now, run_pc, run_exc, chk_caller, chk_exc,
                   pidx, calls, chk_alone>>

\* The iterator of a dict raises when the dict changed size.
IterChanged == Cardinality(it_obj) # it_used

\* Line 78, the iterator raises RuntimeError.
IterRaise ==
    /\ chk_pc = "iter"
    /\ IterChanged
    /\ chk_pc' = "raised"
    /\ chk_exc' = "RuntimeError"
    /\ last' = Op("iter_raise", platforms[pidx], "-", "-")
    /\ UNCHANGED <<subscriptions, now, run_pc, run_exc, chk_caller,
                   pidx, it_obj, it_same, it_used, it_rest, calls, chk_alone>>

\* Line 78, the iterator is exhausted: on to the next platform, or return.
IterStop ==
    /\ chk_pc = "iter"
    /\ ~IterChanged
    /\ it_rest = {}
    /\ IF pidx < Len(platforms)
       THEN /\ pidx' = pidx + 1
            /\ chk_pc' = "platform"
       ELSE /\ pidx' = pidx
            /\ chk_pc' = "done"
    /\ last' = Op("iter_stop", platforms[pidx], "-", "-")
    /\ UNCHANGED <<subscriptions, now, run_pc, run_exc, chk_caller, chk_exc,
                   it_obj, it_same, it_used, it_rest, calls, chk_alone>>

\* Lines 78-82 for one subscription_id.
CheckSub(id) ==
    /\ chk_pc = "iter"
    /\ ~IterChanged
    /\ id \in it_rest
    /\ it_rest' = it_rest \ {id}
    /\ LET p == platforms[pidx] IN
        IF ~Tracked(subscriptions, p, id)
        THEN /\ chk_pc' = "raised"
             /\ chk_exc' = "KeyError"
             /\ calls' = calls
             /\ last' = Op("check_sub", p, id, "KeyError")
        ELSE IF IsDue(now, subscriptions[p][id].expiry)
        THEN /\ chk_pc' = "renewing"
             /\ chk_exc' = chk_exc
             /\ calls' = Append(calls, <<p, id>>)
             /\ last' = Op("check_sub", p, id, "renew")
        ELSE /\ chk_pc' = chk_pc
             /\ chk_exc' = chk_exc
             /\ calls' = calls
             /\ last' = Op("check_sub", p, id, "skip")
    /\ UNCHANGED <<subscriptions, now, run_pc, run_exc, chk_caller,
                   pidx, it_obj, it_same, it_used, chk_alone>>

(***************************************************************************)
(* renew_subscription(platform, subscription_id)                           *)
(***************************************************************************)
\* Catching aiohttp.ClientError only, as fetch_subscription_data does.
RenewCatches_client(exc) == exc \in ClientErrors

\* Line 67: except Exception.
RenewCatches(exc) == exc \in Exceptions

\* The call raises to its caller: the POST raised and line 67 did not catch it.
RenewRaises(resp) == resp.kind = "raise" /\ ~RenewCatches(resp.exc)

\* Every 2xx status taken for success.
renew_subscription_2xx(resp) ==
    resp.kind = "status" /\ resp.status >= 200 /\ resp.status < 300

\* The value returned for the outcome of the POST: lines 62-69.
renew_subscription(resp) == resp.kind = "status" /\ resp.status = 200

\* What the call has done and returned, as its caller sees it.
RenewOutcome(resp) ==
    IF RenewRaises(resp) THEN resp.exc
    ELSE IF renew_subscription(resp) THEN "True" ELSE "False"

\* A successful renewal pushing the expiry forward by the subscription period.
RenewRegistry_advance(subs, platform, id, ok) ==
    IF ok /\ Tracked(subs, platform, id)
    THEN [subs EXCEPT ![platform][id].expiry = @ + SubscriptionDays * Day]
    ELSE subs

\* The registry after the call: lines 57-69 write nothing to it.
RenewRegistry(subs, platform, id, ok) == subs

\* Leaving the cycle when a renewal fails.
AfterRenew_stop(ok) == IF ok THEN "iter" ELSE "done"

\* Line 82 discards the result; the inner for goes on.
AfterRenew(ok) == "iter"

\* The awaited renewal returns or raises.
RenewReturn(resp) ==
    /\ chk_pc = "renewing"
    /\ LET p == calls[Len(calls)][1]
           id == calls[Len(calls)][2]
       IN /\ IF RenewRaises(resp)
             THEN /\ chk_pc' = "raised"
                  /\ chk_exc' = resp.exc
                  /\ subscriptions' = subscriptions
             ELSE /\ chk_pc' = AfterRenew(renew_subscription(resp))
                  /\ chk_exc' = chk_exc
                  /\ subscriptions' = RenewRegistry(subscriptions, p, id,
                                                    renew_subscription(resp))
          /\ last' = Op("renew", p, id, RenewOutcome(resp))
    /\ UNCHANGED <<now, run_pc, run_exc, chk_caller,
                   pidx, it_obj, it_same, it_used, it_rest, calls, chk_alone>>

\* check_for_renewals() returns or raises to a caller other than run().
CheckReturn ==
    /\ chk_pc \in {"done", "raised"}
    /\ chk_caller = "direct"
    /\ last' = Op("check_return", "-", "-", chk_exc)
    /\ CycleClear
    /\ UNCHANGED <<subscriptions, now, run_pc, run_exc>>

(***************************************************************************)
(* fetch_subscription_data(platform, subscription_id)                      *)
(***************************************************************************)
\* The exception raised inside the try of lines 36-41, "-" when none is:
\* by session.get, or by response.json() on line 39.
FetchRaised(resp) ==
    IF resp.kind = "raise" THEN resp.exc
    ELSE IF resp.status = 200 /\ resp.body = "garbage" THEN "JSONDecodeError"
    ELSE IF resp.status = 200 /\ resp.body = "html" THEN "ContentTypeError"
    ELSE "-"

\* Catching every Exception, as renew_subscription does.
FetchCatches_all(exc) == exc \in Exceptions

\* Line 42: except aiohttp.ClientError.
FetchCatches(exc) == exc \in ClientErrors

\* What the call returns, or the exception it raises to its caller.
fetch_subscription_data(resp) ==
    IF FetchRaised(resp) # "-"
    THEN IF FetchCatches(FetchRaised(resp)) THEN "None" ELSE FetchRaised(resp)
    ELSE IF resp.status = 200 THEN "payload" ELSE "None"

\* A caller awaits fetch_subscription_data; the call touches no state of the
\* manager, so its awaits are not separate steps.
Fetch(platform, id, resp) ==
    /\ Suspended
    /\ last' = Op("fetch", platform, id, fetch_subscription_data(resp))
    /\ UNCHANGED <<subscriptions, now, run_pc, run_exc, chk_pc, chk_caller, chk_exc,
                   pidx, it_obj, it_same, it_used, it_rest, calls, chk_alone>>

(***************************************************************************)
(* run()                                                                   *)
(***************************************************************************)
\* Line 116-118: run() is called and awaits its first cycle.
RunStart ==
    /\ run_pc = "idle"
    /\ chk_pc = "idle"
    /\ run_pc' = "check"
    /\ run_exc' = "none"
    /\ CycleBegin("run")
    /\ last' = Op("run", "-", "-", "-")
    /\ UNCHANGED <<subscriptions, now>>

\* Lines 118-121: the cycle returned and line 120 evaluates asyncio.sleep, or
\* the cycle raised; either exception is caught by line 121.
RunAfterCheck ==
    /\ run_pc = "check"
    /\ chk_caller = "run"
    /\ chk_pc \in {"done", "raised"}
    /\ IF chk_pc = "raised"
       THEN /\ run_pc' = "except"
            /\ run_exc' = chk_exc
            /\ UNCHANGED <<chk_pc, chk_caller, chk_exc, pidx, it_obj, it_same,
                           it_used, it_rest, calls, chk_alone>>
       ELSE IF AsyncioImported
       THEN /\ run_pc' = "check"
            /\ run_exc' = "none"
            /\ CycleBegin("run")
       ELSE /\ run_pc' = "except"
            /\ run_exc' = "NameError"
            /\ UNCHANGED <<chk_pc, chk_caller, chk_exc, pidx, it_obj, it_same,
                           it_used, it_rest, calls, chk_alone>>
    /\ last' = Op("run_after_check", "-", "-", "-")
    /\ UNCHANGED <<subscriptions, now>>

\* Lines 121-123: the handler logs and evaluates asyncio.sleep.
RunExcept ==
    /\ run_pc = "except"
    /\ IF AsyncioImported
       THEN /\ run_pc' = "check"
            /\ run_exc' = "none"
            /\ CycleBegin("run")
       ELSE /\ run_pc' = "raised"
            /\ run_exc' = "NameError"
            /\ UNCHANGED <<chk_pc, chk_caller, chk_exc, pidx, it_obj, it_same,
                           it_used, it_rest, calls, chk_alone>>
    /\ last' = Op("run_except", "-", "-", run_exc)
    /\ UNCHANGED <<subscriptions, now>>

\* The caller of run() has seen its exception; the cycle's frame is gone.
RunUnwind ==
    /\ run_pc = "raised"
    /\ chk_caller = "run"
    /\ CycleClear
    /\ last' = Op("run_raised", "-", "-", run_exc)
    /\ UNCHANGED <<subscriptions, now, run_pc, run_exc>>

Next ==
    \/ \E d \in TickSteps : Tick(d)
    \/ \E p \in PlatformArgs, id \in IdArgs : add_subscription(p, id)
    \/ \E p \in PlatformArgs, id \in IdArgs : remove_subscription(p, id)
    \/ CheckCall
    \/ NextPlatform
    \/ IterRaise
    \/ IterStop
    \/ \E id \in IdArgs : CheckSub(id)
    \/ \E resp \in Responses : RenewReturn(resp)
    \/ CheckReturn
    \/ \E p \in FetchPlatformArgs, id \in FetchIdArgs, resp \in FetchResponses :
          Fetch(p, id, resp)
    \/ RunStart
    \/ RunAfterCheck
    \/ RunExcept
    \/ RunUnwind

Spec == Init /\ [][Next]_vars

(***************************************************************************)
(* Properties.                                                             *)
(***************************************************************************)
Record(subs, platform, id) == subs[platform][id]

\* C1: a tracked record stays in the registry, with the same status and
\* expiry, over every step that is not remove of its own platform and id; in
\* particular add of another id on the same platform keeps it.
C1_RecordKeptUntilRemoved ==
    [][\A p \in PlatformArgs, id \in IdArgs :
         (Tracked(subscriptions, p, id) /\ ~remove_subscription(p, id))
           => /\ Tracked(subscriptions', p, id)
              /\ Record(subscriptions', p, id) = Record(subscriptions, p, id)]_vars

\* C2: add on a platform outside self.platforms leaves the registry as it was.
C2_UnsupportedAddNoOp ==
    [][(last'.op = "add") =>
       \A p \in PlatformArgs \ {"PlatformA", "PlatformB", "PlatformC"}, id \in IdArgs :
         add_subscription(p, id) => subscriptions' = subscriptions]_vars

\* C2 witness: add was called on an unsupported platform with records tracked.
C2_Witness ==
    /\ last.op = "add"
    /\ last.platform = "PlatformX"
    /\ Tracked(subscriptions, "PlatformA", "sub1")

\* C3: add of a pair that is already tracked leaves the whole registry as it
\* was, also when the clock has advanced since the record was created.
C3_AddIdempotent ==
    [][(last'.op = "add") =>
       \A p \in PlatformArgs, id \in IdArgs :
         (Tracked(subscriptions, p, id) /\ add_subscription(p, id))
           => subscriptions' = subscriptions]_vars

\* C3 witness: add was called again for a tracked pair after time advanced.
C3_Witness ==
    /\ last.op = "add"
    /\ last.ret = "-"
    /\ Tracked(subscriptions, last.platform, last.id)
    /\ Record(subscriptions, last.platform, last.id).expiry < now + 30 * Day

\* C4: add of an untracked pair on a supported platform tracks it with status
\* active and expiry 30 days after the call.
C4_AddCreatesRecord ==
    [][(last'.op = "add") =>
       \A p \in {"PlatformA", "PlatformB", "PlatformC"}, id \in IdArgs :
         (~Tracked(subscriptions, p, id) /\ add_subscription(p, id))
           => /\ Tracked(subscriptions', p, id)
              /\ Record(subscriptions', p, id)
                   = [status |-> "active", expiry |-> now + 30 * Day]]_vars

\* C4 witness: a record was just created, at a time after construction.
C4_Witness ==
    /\ last.op = "add"
    /\ last.ret = "added"
    /\ now > 0
    /\ Tracked(subscriptions, last.platform, last.id)

\* C5: remove of a pair that is not tracked leaves the registry as it was.
C5_RemoveUntrackedNoOp ==
    [][(last'.op = "remove") =>
       \A p \in PlatformArgs, id \in IdArgs :
         (~Tracked(subscriptions, p, id) /\ remove_subscription(p, id))
           => subscriptions' = subscriptions]_vars

\* C5 witness: remove was called for an untracked id on a supported platform
\* that tracks another id.
C5_Witness ==
    /\ last.op = "remove"
    /\ last.ret = "-"
    /\ last.platform \in DOMAIN subscriptions
    /\ DOMAIN subscriptions[last.platform] # {}
    /\ ~Tracked(subscriptions, last.platform, last.id)

\* C6: every platform key of the registry is a supported platform.
C6_KeysSupported ==
    DOMAIN subscriptions \subseteq {"PlatformA", "PlatformB", "PlatformC"}

\* C6 witness: two platforms are keys and remove was called on an unsupported one.
C6_Witness ==
    /\ DOMAIN subscriptions = {"PlatformA", "PlatformB"}
    /\ last.op = "remove"
    /\ last.platform = "PlatformX"

C8_RenewSixDaysBeforeExpiry ==
    (/\ chk_pc = "done"
     /\ subscriptions = ("PlatformA" :> ("sub1" :> [status |-> "active",
                                                    expiry |-> 30 * Day])))
      => /\ now = 0 => calls = << >>
         /\ now = 24 * Day => calls = << <<"PlatformA", "sub1">> >>

\* C9: run() never raises or returns.
C9_RunNeverExits == run_pc # "raised"

\* C10: when a cycle awaited by run() has raised, run() handles the exception
\* and goes on to another cycle; it does not raise to its caller.
C10_CycleFailureContained ==
    [][(run_pc = "except" /\ chk_pc = "raised" /\ run_exc = chk_exc)
         => (run_pc' = "check" /\ chk_pc' = "platform")]_vars

\* Number of times x occurs in seq.
Count(seq, x) == Cardinality({i \in 1..Len(seq) : seq[i] = x})

\* C11: renew returns True exactly when the POST is answered with status 200,
\* False for every other status and for every exception of the POST, and does
\* not raise to the cycle that awaits it.
C11_RenewResult ==
    [][(last'.op = "renew") =>
       \A resp \in Responses :
         RenewReturn(resp)
           => /\ last'.ret = (IF resp.kind = "status" /\ resp.status = 200
                              THEN "True" ELSE "False")
              /\ chk_pc' # "raised"
              /\ chk_exc' = chk_exc]_vars

\* C11 witness: a renewal returned False to a cycle that goes on.
C11_Witness ==
    /\ last.op = "renew"
    /\ last.ret = "False"
    /\ chk_pc = "iter"

\* C12: fetch returns the payload only for status 200 with a decodable body,
\* None for every other status and every failure of the request or of the
\* decoding, and never raises.
C12_FetchNeverRaises ==
    [][\A p \in FetchPlatformArgs, id \in FetchIdArgs, resp \in FetchResponses :
         Fetch(p, id, resp)
           => last'.ret = (IF resp.kind = "status" /\ resp.status = 200
                              /\ resp.body = "json"
                           THEN "payload" ELSE "None")]_vars

\* C13: a cycle that ran to its end with nothing else changing the registry or
\* the clock has issued exactly one renew call for every tracked subscription
\* that is due and none for any other pair, whatever the renewals returned.
C13_CycleCoversAll ==
    (chk_pc = "done" /\ chk_alone)
      => \A p \in {"PlatformA", "PlatformB", "PlatformC"}, id \in IdArgs :
           Count(calls, <<p, id>>)
             = (IF Tracked(subscriptions, p, id)
                   /\ now - 7 * Day > Record(subscriptions, p, id).expiry
                THEN 1 ELSE 0)

\* C13 witness: a cycle ended after renew calls on two platforms.
C13_Witness ==
    /\ chk_pc = "done"
    /\ chk_alone
    /\ Len(calls) = 2
    /\ calls[1][1] = "PlatformA"
    /\ calls[2][1] = "PlatformB"

\* C14: only add and remove change the registry: renew, fetch and the steps of
\* the cycle and of run() leave every record, and so every expiry, as it was.
C14_OnlyAddRemoveWrite ==
    [][(last'.op \notin {"add", "remove"}) => subscriptions' = subscriptions]_vars

\* C14 witness: a renewal succeeded for a record that is still tracked with
\* the expiry that made it due.
C14_Witness ==
    /\ last.op = "renew"
    /\ last.ret = "True"
    /\ Tracked(subscriptions, last.platform, last.id)
    /\ now - 7 * Day > Record(subscriptions, last.platform, last.id).expiry

\* C15: remove of a tracked pair untracks that pair and leaves every other
\* pair as it was, tracked or not, with its record; add of an untracked pair
\* on a supported platform then tracks it with expiry 30 days after that call.
C15_RemoveExactlyOne ==
    [][/\ (last'.op = "remove" /\ last'.ret = "removed")
            => LET p == last'.platform
                   id == last'.id
               IN remove_subscription(p, id)
                    => /\ ~Tracked(subscriptions', p, id)
                       /\ \A q \in PlatformArgs, j \in IdArgs :
                            (<<q, j>> # <<p, id>>)
                              => /\ Tracked(subscriptions', q, j)
                                      <=> Tracked(subscriptions, q, j)
                                 /\ Tracked(subscriptions, q, j)
                                      => Record(subscriptions', q, j)
                                           = Record(subscriptions, q, j)
       /\ (last.op = "remove" /\ last.ret = "removed"
             /\ add_subscription(last.platform, last.id))
            => /\ Tracked(subscriptions', last.platform, last.id)
               /\ Record(subscriptions', last.platform, last.id).expiry
                    = now + 30 * Day]_vars

\* C15 witness: a tracked pair was removed while another platform tracks a record.
C15_Witness ==
    /\ last = Op("remove", "PlatformA", "sub1", "removed")
    /\ ~Tracked(subscriptions, "PlatformA", "sub1")
    /\ GetKeys(subscriptions, "PlatformB") # {}

\* C16: every stored status is active; a pair becomes tracked only by add of
\* that pair and stops being tracked only by remove of that pair.
C16_TwoStates ==
    [][\A p \in PlatformArgs, id \in IdArgs :
         /\ Tracked(subscriptions', p, id)
              => Record(subscriptions', p, id).status = "active"
         /\ (~Tracked(subscriptions, p, id) /\ Tracked(subscriptions', p, id))
              => add_subscription(p, id)
         /\ (Tracked(subscriptions, p, id) /\ ~Tracked(subscriptions', p, id))
              => remove_subscription(p, id)]_vars

\* C17: whatever add and remove do while the cycle is suspended inside renew,
\* the cycle does not raise, and every renew call is for a pair tracked when
\* the call is issued.
C17_CycleSurvivesAddRemove ==
    [][/\ chk_pc' # "raised"
       /\ Len(calls') > Len(calls)
            => Tracked(subscriptions, calls'[Len(calls')][1], calls'[Len(calls')][2])]_vars

\* C18: a tracked subscription that is due stays tracked and due over every
\* step that is not remove of its pair, and every cycle that ran to its end
\* with nothing else changing the registry or the clock has issued a renew
\* call for every tracked subscription that is due.
C18_DueUntilRemoved ==
    [][/\ \A p \in PlatformArgs, id \in IdArgs :
            (/\ Tracked(subscriptions, p, id)
             /\ now - 7 * Day > Record(subscriptions, p, id).expiry
             /\ ~remove_subscription(p, id))
              => /\ Tracked(subscriptions', p, id)
                 /\ now' - 7 * Day > Record(subscriptions', p, id).expiry
       /\ (chk_pc' = "done" /\ chk_alone')
            => \A p \in PlatformArgs, id \in IdArgs :
                 (/\ Tracked(subscriptions', p, id)
                  /\ now' - 7 * Day > Record(subscriptions', p, id).expiry)
                   => Count(calls', <<p, id>>) = 1]_vars

====
